---- MODULE Spec2Model ----
(***************************************************************************)
(* Client-side chat history handling of the chat application:              *)
(*   - App (frontend/src/App.tsx, the sessionCache revision): fetchHistories,*)
(*     handleNewChat, handleSelectChat, handleMessageSent;                  *)
(*   - ChatContainer (frontend/src/components/ChatContainer.tsx): the      *)
(*     history effect, fetchChatHistory and handleSubmit;                   *)
(*   - ChatProvider (frontend/src/context/ChatContext.tsx) and             *)
(*     AuthProvider (frontend/src/context/AuthContext.tsx and its revision  *)
(*     with MAX_RETRIES);                                                   *)
(*   - the HTTP endpoints /chat_history, /send_message, /chat_sessions,     *)
(*     /auth_status, /login and /logout as environment.                     *)
(*                                                                         *)
(* React semantics kept by the model: a handler runs atomically up to its   *)
(* await; the code after the await reads the state values captured when the *)
(* handler was created (its closure), while functional updates              *)
(* (setX(prev => ...)) read the current state; a component keyed by         *)
(* currentChatId is remounted when the key changes and state updates of an  *)
(* unmounted instance are dropped; passive effects run as a step of their   *)
(* own after the render that scheduled them.                                *)
(***************************************************************************)
EXTENDS Integers, Sequences, FiniteSets, Bags, TLC

VARIABLES
  store,          \* server: rows of user_chat_history, oldest first
  clock,          \* server/client clock: next record id, TIMESTAMP, Date.now()
  chatHistory,    \* App state
  videoHistory,   \* App state
  error,          \* App state
  chats,          \* App state
  currentChatId,  \* App state
  sessionCache,   \* App state: ordered map, a sequence of [key, val] entries
  chatMessages,   \* mounted ChatContainer state
  isLoading,      \* mounted ChatContainer state
  ccError,        \* mounted ChatContainer state
  effectPending,  \* the mounted ChatContainer has rendered and its effect has not run yet
  reqs,           \* bag of the HTTP requests in flight, each with the closure of its handler
  nGet,           \* GET /chat_history requests issued so far
  nPost,          \* POST /send_message requests issued so far
  nNew,           \* chats created by handleNewChat so far
  mounted,        \* App's mount effect has run
  rev,            \* which revision of App is running: "cache" (with sessionCache) or "legacy"
  lastOp,         \* history variable: the handler or continuation that ran last
  currentSession, \* ChatProvider state: the id of the current ChatSession, or null
  ctxMessages,    \* ChatProvider state messages
  ctxIsLoading,   \* ChatProvider state isLoading
  ctxError,       \* ChatProvider state error
  nSession,       \* POST /chat_sessions requests issued so far
  user,           \* AuthProvider state
  loading,        \* AuthProvider state
  isAuthenticated,\* AuthProvider state (frontend/src/context/AuthContext.tsx only)
  authCalls,      \* bag of the running checkAuthStatus, login and logout calls
  loggedIn,       \* server: the browser's session cookie is one of a logged-in user
  nLogin,         \* login and logout calls so far
  authMounted,    \* AuthProvider's mount effect has run
  authRev         \* which AuthProvider is running: "retry" (with MAX_RETRIES) or "single"

vars == <<store, clock, chatHistory, videoHistory, error, chats, currentChatId,
          sessionCache, chatMessages, isLoading, ccError, effectPending,
          reqs, nGet, nPost, nNew, mounted, rev, lastOp,
          currentSession, ctxMessages, ctxIsLoading, ctxError, nSession,
          user, loading, isAuthenticated, authCalls, loggedIn, nLogin, authMounted, authRev>>

appVars == <<chatHistory, videoHistory, error, chats, currentChatId, sessionCache>>
ccVars == <<chatMessages, isLoading, ccError>>
ctxVars == <<currentSession, ctxMessages, ctxIsLoading, ctxError, nSession>>
authVars == <<user, loading, isAuthenticated, authCalls, loggedIn, nLogin, authMounted, authRev>>
chatVars == <<store, clock, appVars, ccVars, effectPending, reqs, nGet, nPost, nNew, mounted, rev,
              lastOp, ctxVars>>

-----------------------------------------------------------------------------
(* Bounds of the model. *)
MaxGet == 3
MaxPost == 2
MaxNewChats == 1
MaxSessions == 2
MaxAuthCalls == 2
MaxPending == 2

(* null / undefined *)
NULL == "null"

(* The AuthProvider after checkAuthStatus found the logged-in user: the     *)
(* state in which App and ChatContainer are rendered.                       *)
SignedIn ==
  /\ user = "u1"
  /\ loading = FALSE
  /\ isAuthenticated = TRUE
  /\ authCalls = EmptyBag
  /\ loggedIn = TRUE
  /\ nLogin = 0
  /\ authMounted = TRUE
  /\ authRev = "single"

(* Texts are sequences of characters, so that slice() is a real operation. *)
UntitledChat == <<"U","n","t","i","t","l","e","d"," ","C","h","a","t">>
NewChatPrefix == <<"N","e","w"," ","C","h","a","t"," ">>
SendFailedText ==
  <<"F","a","i","l","e","d"," ","t","o"," ","s","e","n","d"," ","m","e","s","s","a","g","e",".",
    " ","P","l","e","a","s","e"," ","t","r","y"," ","a","g","a","i","n",".">>

(* What the user may type. *)
Texts == { <<"h","i">>, <<"y","o">> }

(* data.response of /send_message for a message. *)
Reply(m) == <<"r","e",":">> \o m

TitleLimit == 30

Min(a, b) == IF a < b THEN a ELSE b

(* String.prototype.slice(0, n) *)
Slice(s, n) == SubSeq(s, 1, Min(n, Len(s)))

Range(s) == { s[i] : i \in DOMAIN s }

Ids(hist) == { hist[i].id : i \in DOMAIN hist }

-----------------------------------------------------------------------------
(* The ordered map sessionCache / groupedBySession. *)

Keys(cache) == { cache[i].key : i \in DOMAIN cache }

HasKey(cache, k) == k \in Keys(cache)

Lookup(cache, k) == cache[CHOOSE i \in DOMAIN cache : cache[i].key = k].val

(* obj[k] = v : an existing key keeps its place, a new one goes last *)
PutKey(cache, k, v) ==
  IF HasKey(cache, k)
  THEN [i \in DOMAIN cache |-> IF cache[i].key = k THEN [key |-> k, val |-> v] ELSE cache[i]]
  ELSE Append(cache, [key |-> k, val |-> v])

(* a merge that drops the new entries *)
SpreadCacheKeepingPrev(prev, grouped) == prev

(* { ...prev, ...grouped } *)
RECURSIVE SpreadCache(_, _)
SpreadCache(prev, grouped) ==
  IF grouped = <<>> THEN prev
  ELSE SpreadCache(PutKey(prev, Head(grouped).key, Head(grouped).val), Tail(grouped))

(* Object.values(sessionCache).flat() *)
RECURSIVE Flat(_)
Flat(cache) == IF cache = <<>> THEN <<>> ELSE Head(cache).val \o Flat(Tail(cache))

(* chatHistory.reduce(...) grouping by msg.session_id || 'default' *)
RECURSIVE GroupBySession(_)
GroupBySession(hist) ==
  IF hist = <<>> THEN <<>>
  ELSE LET n == Len(hist)
           acc == GroupBySession(SubSeq(hist, 1, n - 1))
           msg == hist[n]
           k == IF msg.session_id = NULL THEN "default" ELSE msg.session_id
       IN  IF HasKey(acc, k)
           THEN PutKey(acc, k, Append(Lookup(acc, k), msg))
           ELSE PutKey(acc, k, <<msg>>)

(* [...messages].sort((a, b) => time(a.TIMESTAMP) - time(b.TIMESTAMP)): stable *)
RECURSIVE SortByTimestamp(_)
SortByTimestamp(msgs) ==
  IF msgs = <<>> THEN <<>>
  ELSE LET n == Len(msgs)
           sorted == SortByTimestamp(SubSeq(msgs, 1, n - 1))
           x == msgs[n]
           k == Cardinality({ i \in DOMAIN sorted : sorted[i].TIMESTAMP <= x.TIMESTAMP })
       IN  SubSeq(sorted, 1, k) \o <<x>> \o SubSeq(sorted, k + 1, Len(sorted))

(* msg.chat_type === 'text' ? 'user' : msg.chat_type *)
CacheType(t) == IF t = "text" THEN "user" ELSE t

(* msg.chat_type === 'user' ? 'user' : 'bot' *)
FetchType(t) == IF t = "user" THEN "user" ELSE "bot"

(* x || fallback for a text x *)
OrElse(x, fallback) == IF x = <<>> THEN fallback ELSE x

(* One entry of groupedBySession converted to a Chat. *)
ConvertChat(entry) ==
  LET sortedMessages == SortByTimestamp(entry.val)
  IN  [ id |-> entry.key,
        title |-> IF sortedMessages = <<>> THEN UntitledChat
                  ELSE OrElse(Slice(sortedMessages[1].message, TitleLimit), UntitledChat),
        messages |-> [ i \in DOMAIN sortedMessages |->
                         [ type |-> CacheType(sortedMessages[i].chat_type),
                           content |-> sortedMessages[i].message ] ],
        timestamp |-> IF sortedMessages = <<>> THEN NULL ELSE sortedMessages[1].TIMESTAMP,
        session_id |-> entry.key ]

ConvertChats(grouped) == [ i \in DOMAIN grouped |-> ConvertChat(grouped[i]) ]

ChatIds == { chats[i].id : i \in DOMAIN chats }

HasChat(cs, chatId) == \E i \in DOMAIN cs : cs[i].id = chatId

(* chats.find(c => c.id === chatId), for a chatId that has a chat *)
FindChat(cs, chatId) ==
  cs[CHOOSE i \in DOMAIN cs : cs[i].id = chatId /\ \A j \in 1..(i - 1) : cs[j].id # chatId]

(* chat?.session_id *)
SessionOf(cs, chatId) ==
  IF HasChat(cs, chatId) THEN FindChat(cs, chatId).session_id ELSE NULL

-----------------------------------------------------------------------------
(* The server side of /chat_history and /send_message.  A request of       *)
(* fetchHistories or handleSelectChat is answered in two steps: the server  *)
(* handles it, reading the store at that moment, and later the response     *)
(* reaches the waiting handler.  For fetchChatHistory and handleSubmit the  *)
(* two steps are one.                                                       *)

Row(id, sid, type, text) ==
  [ id |-> id, session_id |-> sid, TIMESTAMP |-> id, chat_type |-> type, message |-> text ]

(* Histories that may exist when the page is opened. *)
InitStores ==
  { <<>>,
    << Row(1, "s1", "text", <<"a">>), Row(2, "s2", "text", <<"c">>) >> }

RECURSIVE SelectRows(_, _)
SelectRows(rows, sid) ==
  IF rows = <<>> THEN <<>>
  ELSE IF sid = NULL \/ Head(rows).session_id = sid
       THEN <<Head(rows)>> \o SelectRows(Tail(rows), sid)
       ELSE SelectRows(Tail(rows), sid)

(* The session a message is stored under: the one sent, or one the server makes. *)
StoredUnder(sid) == IF sid = NULL THEN "auto" ELSE sid

(* The rows /send_message stores: the message and the reply. *)
PostRows(r) ==
  << Row(clock, StoredUnder(r.session), "user", r.text),
     Row(clock + 1, StoredUnder(r.session), "bot", Reply(r.text)) >>

Outcomes == { "ok", "fail", "malformed" }

NewReq(kind, sid) ==
  [ kind |-> kind, session |-> sid, state |-> "sent", body |-> <<>>, live |-> TRUE,
    text |-> <<>>, snapMsgs |-> <<>>, snapSid |-> NULL, snapCache |-> <<>>, snapCur |-> NULL ]

Add(rs, r) == rs (+) SetToBag({r})
Remove(rs, r) == rs (-) SetToBag({r})

(* GET /chat_history[?session_id=...] is handled by the server *)
ServerGet(r, outcome) ==
  /\ r.kind \in { "fh", "sel" }
  /\ r.state = "sent"
  /\ reqs' = Add(Remove(reqs, r),
                 [r EXCEPT !.state = outcome,
                           !.body = IF outcome = "ok" THEN SelectRows(store, r.session) ELSE <<>>])
  /\ UNCHANGED <<store, clock, appVars, ccVars, effectPending, nGet, nPost, nNew, mounted, rev, authVars, lastOp, ctxVars>>

-----------------------------------------------------------------------------
(* App *)

Op(name, sid, status, hit, ids, live) ==
  [ op |-> name, session |-> sid, status |-> status, hit |-> hit, ids |-> ids, live |-> live ]

(* UseCached looking under the key 'default' instead of sessionId *)
UseCachedDefaultKey(sessionId, cache) == sessionId # NULL /\ HasKey(cache, "default")

(* if (sessionId && sessionCache[sessionId]) *)
UseCached(sessionId, cache) == sessionId # NULL /\ HasKey(cache, sessionId)

(* UseCompleteCache with the test of sessionId inverted *)
UseCompleteCacheInverted(sessionId, cache) == sessionId # NULL /\ Len(cache) > 0

(* if (!sessionId && Object.keys(sessionCache).length > 0) *)
UseCompleteCache(sessionId, cache) == sessionId = NULL /\ Len(cache) > 0

(* fetchHistories(sessionId) up to its await, called by a handler whose     *)
(* closure holds `cache`; `others` are the requests that stay in flight     *)
FetchHistoriesCall(sessionId, cache, others) ==
  /\ error' = NULL
  /\ IF UseCached(sessionId, cache)
     THEN /\ chatHistory' = Lookup(cache, sessionId)
          /\ reqs' = others
          /\ nGet' = nGet
     ELSE IF UseCompleteCache(sessionId, cache)
     THEN /\ chatHistory' = Flat(cache)
          /\ reqs' = others
          /\ nGet' = nGet
     ELSE /\ nGet < MaxGet
          /\ reqs' = Add(others, NewReq("fh", sessionId))
          /\ nGet' = nGet + 1
          /\ UNCHANGED chatHistory

(* Array.isArray(chatData) ? chatData : [] *)
HistoryOf(r) == IF r.state = "ok" THEN r.body ELSE <<>>

(* CacheAfterFetch with a catch block that also resets the cache *)
CacheAfterFetchClearing(prev, r) ==
  IF r.state = "fail" THEN <<>> ELSE SpreadCache(prev, GroupBySession(HistoryOf(r)))

(* sessionCache after the response r of fetchHistories was processed *)
CacheAfterFetch(prev, r) ==
  IF r.state = "fail" THEN prev ELSE SpreadCache(prev, GroupBySession(HistoryOf(r)))

(* fetchHistories after its await *)
FetchHistoriesResume(r) ==
  /\ sessionCache' = CacheAfterFetch(sessionCache, r)
  /\ IF r.state = "fail"
     THEN /\ error' = "Failed to load chat history"
          /\ UNCHANGED <<chatHistory, chats>>
     ELSE /\ chatHistory' = HistoryOf(r)
          /\ chats' = ConvertChats(GroupBySession(HistoryOf(r)))
          /\ UNCHANGED error
  /\ reqs' = Remove(reqs, r)
  /\ effectPending' = TRUE
  /\ lastOp' = Op("fetchHistories", r.session, r.state, FALSE, {}, r.live)
  /\ UNCHANGED <<store, clock, videoHistory, currentChatId, ccVars, nGet, nPost, nNew, mounted, rev, authVars, ctxVars>>

(* React.useEffect(() => { fetchHistories(); }, []) *)
AppMount ==
  /\ ~mounted
  /\ mounted' = TRUE
  /\ FetchHistoriesCall(NULL, sessionCache, reqs)
  /\ lastOp' = Op("mount", NULL, "call", FALSE, {}, TRUE)
  /\ UNCHANGED <<store, clock, videoHistory, chats, currentChatId, sessionCache, ccVars,
                 effectPending, nPost, nNew, rev, authVars, ctxVars>>

(* The ChatContainer is keyed by currentChatId: a new key mounts a new       *)
(* instance, whose useState initialisers run again (sessionCache is not     *)
(* passed to it, so chatMessages starts from initialMessages); the handlers *)
(* of the old instance still waiting can no longer change component state.  *)
(* live marks the requests made while the chat now current was current.     *)
RECURSIVE OrphanAll(_, _)
OrphanAll(rs, todo) ==
  IF todo = {} THEN rs
  ELSE LET r == CHOOSE x \in todo : TRUE
           n == CopiesIn(r, rs)
           gone == [ x \in {r} |-> n ]
           back == [ x \in { [r EXCEPT !.live = FALSE] } |-> n ]
       IN  OrphanAll((rs (-) gone) (+) back, todo \ {r})

(* Orphan aborting the requests instead of leaving them in flight *)
OrphanAborting(rs) == [ r \in { x \in BagToSet(rs) : ~x.live } |-> rs[r] ]

Orphan(rs) == OrphanAll(rs, { r \in BagToSet(rs) : r.live })

InitialMessages(cs, chatId) ==
  IF HasChat(cs, chatId) THEN FindChat(cs, chatId).messages ELSE <<>>

Remount(cs, chatId) ==
  /\ chatMessages' = InitialMessages(cs, chatId)
  /\ isLoading' = FALSE
  /\ ccError' = NULL
  /\ effectPending' = TRUE

(* `New Chat ${chats.length + 1}` *)
NewChatTitle(n) == NewChatPrefix \o <<ToString(n)>>

handleNewChat ==
  /\ mounted
  /\ nNew < MaxNewChats
  /\ LET newChat == [ id |-> ToString(clock),
                      title |-> NewChatTitle(Len(chats) + 1),
                      messages |-> <<>>,
                      timestamp |-> clock,
                      session_id |-> NULL ]
     IN  /\ chats' = <<newChat>> \o chats
         /\ currentChatId' = newChat.id
         /\ Remount(chats', newChat.id)
  /\ clock' = clock + 1
  /\ nNew' = nNew + 1
  /\ reqs' = Orphan(reqs)
  /\ lastOp' = Op("handleNewChat", NULL, "call", FALSE, {}, TRUE)
  /\ UNCHANGED <<store, chatHistory, videoHistory, error, sessionCache, nGet, nPost, mounted, rev, authVars, ctxVars>>

(* handleSelectChat up to its await *)
handleSelectChat(chatId) ==
  /\ mounted
  /\ chatId \in ChatIds
  /\ error' = NULL
  /\ currentChatId' = chatId
  /\ LET sid == SessionOf(chats, chatId)
         rest == IF chatId = currentChatId THEN reqs ELSE Orphan(reqs)
     IN  IF sid # NULL
         THEN IF HasKey(sessionCache, sid)
              THEN /\ chatHistory' = Lookup(sessionCache, sid)
                   /\ reqs' = rest
                   /\ nGet' = nGet
                   /\ lastOp' = Op("handleSelectChat", sid, "call", TRUE, {}, TRUE)
              ELSE /\ nGet < MaxGet
                   /\ reqs' = Add(rest, NewReq("sel", sid))
                   /\ nGet' = nGet + 1
                   /\ lastOp' = Op("handleSelectChat", sid, "call", FALSE, {}, TRUE)
                   /\ UNCHANGED chatHistory
         ELSE /\ chatHistory' = <<>>
              /\ reqs' = rest
              /\ nGet' = nGet
              /\ lastOp' = Op("handleSelectChat", NULL, "call", FALSE, {}, TRUE)
  /\ IF chatId = currentChatId
     THEN /\ effectPending' = (effectPending \/ error # NULL \/ chatHistory' # chatHistory)
          /\ UNCHANGED ccVars
     ELSE Remount(chats, chatId)
  /\ UNCHANGED <<store, clock, videoHistory, chats, sessionCache, nPost, nNew, mounted, rev, authVars, ctxVars>>

(* handleSelectChat after its await *)
handleSelectChatResume(r) ==
  /\ IF r.state = "fail"
     THEN /\ error' = "Failed to load chat messages. Please try again."
          /\ UNCHANGED <<sessionCache, chatHistory>>
     ELSE IF r.state = "ok"
     THEN /\ sessionCache' = PutKey(sessionCache, r.session, r.body)
          /\ chatHistory' = r.body
          /\ UNCHANGED error
     ELSE UNCHANGED <<sessionCache, chatHistory, error>>
  /\ reqs' = Remove(reqs, r)
  /\ effectPending' = (effectPending \/ r.state # "malformed")
  /\ lastOp' = Op("handleSelectChat", r.session, r.state, FALSE, {}, r.live)
  /\ UNCHANGED <<store, clock, videoHistory, chats, currentChatId, ccVars, nGet, nPost, nNew, mounted, rev, authVars, ctxVars>>

-----------------------------------------------------------------------------
(* App, the revision without sessionCache (App.tsx lines 7-168): every      *)
(* fetchHistories asks /chat_history and /video_analysis_history and makes  *)
(* one Chat of every row of the chat history.                               *)

Ellipsis == <<".", ".", ".">>

(* rows of /video_analysis_history *)
VideoRows ==
  << [ id |-> 1, TIMESTAMP |-> 1, upload_file_name |-> <<"v">>, analysis |-> <<"x">> ] >>

(* message.length > 30 ? message.slice(0, 30) + '...' : (message || 'Untitled Chat') *)
TitleOfMessage(message) ==
  IF Len(message) > TitleLimit
  THEN Slice(message, TitleLimit) \o Ellipsis
  ELSE OrElse(message, UntitledChat)

ConvertChatLegacy(chatItem) ==
  [ id |-> ToString(chatItem.id),
    title |-> TitleOfMessage(chatItem.message),
    messages |-> << [ type |-> chatItem.chat_type, content |-> chatItem.message ] >>,
    timestamp |-> chatItem.TIMESTAMP,
    session_id |-> NULL ]

(* convertedChats.sort((a, b) => time(b.timestamp) - time(a.timestamp)): stable *)
RECURSIVE SortChatsDesc(_)
SortChatsDesc(cs) ==
  IF cs = <<>> THEN <<>>
  ELSE LET n == Len(cs)
           sorted == SortChatsDesc(SubSeq(cs, 1, n - 1))
           x == cs[n]
           k == Cardinality({ i \in DOMAIN sorted : sorted[i].timestamp >= x.timestamp })
       IN  SubSeq(sorted, 1, k) \o <<x>> \o SubSeq(sorted, k + 1, Len(sorted))

ConvertChatsLegacy(hist) ==
  SortChatsDesc([ i \in DOMAIN hist |-> ConvertChatLegacy(hist[i]) ])

SanitizeChatHistory(hist) ==
  [ i \in DOMAIN hist |->
      [ TIMESTAMP |-> hist[i].TIMESTAMP, chat_type |-> hist[i].chat_type,
        message |-> hist[i].message, id |-> hist[i].id ] ]

(* fetchHistories of the legacy revision up to its await; `cur` is the      *)
(* currentChatId of the render the calling handler was created in           *)
FetchHistoriesLegacyCall(cur, others) ==
  /\ error' = NULL
  /\ nGet < MaxGet
  /\ reqs' = Add(others, [NewReq("fh", NULL) EXCEPT !.snapCur = cur])
  /\ nGet' = nGet + 1

(* the chats, chatHistory and videoHistory that the catch block sets *)
LegacyOnError(prev) == <<>>

(* fetchHistories of the legacy revision after its await: a response that   *)
(* is not OK throws; a body without a history array counts as empty         *)
FetchHistoriesLegacyResume(r) ==
  /\ IF r.state = "fail"
     THEN /\ error' = "Failed to fetch history data"
          /\ chatHistory' = LegacyOnError(chatHistory)
          /\ videoHistory' = LegacyOnError(videoHistory)
          /\ chats' = LegacyOnError(chats)
          /\ UNCHANGED <<currentChatId, ccVars>>
          /\ reqs' = Remove(reqs, r)
     ELSE /\ chatHistory' = SanitizeChatHistory(HistoryOf(r))
          /\ videoHistory' = IF r.state = "ok" THEN VideoRows ELSE <<>>
          /\ chats' = ConvertChatsLegacy(HistoryOf(r))
          /\ UNCHANGED error
          /\ IF r.snapCur = NULL /\ chats' # <<>> /\ chats'[1].id # currentChatId
             THEN /\ currentChatId' = chats'[1].id
                  /\ chatMessages' = InitialMessages(chats', chats'[1].id)
                  /\ isLoading' = FALSE
                  /\ ccError' = NULL
                  /\ reqs' = Orphan(Remove(reqs, r))
             ELSE /\ reqs' = Remove(reqs, r)
                  /\ UNCHANGED <<currentChatId, ccVars>>
  /\ effectPending' = TRUE
  /\ lastOp' = Op("fetchHistories", NULL, r.state, FALSE, {}, r.live)
  /\ UNCHANGED <<store, clock, sessionCache, nGet, nPost, nNew, mounted, rev, authVars, ctxVars>>

(* React.useEffect(() => { fetchHistories(); }, []) *)
AppMountLegacy ==
  /\ ~mounted
  /\ mounted' = TRUE
  /\ FetchHistoriesLegacyCall(currentChatId, reqs)
  /\ lastOp' = Op("mount", NULL, "call", FALSE, {}, TRUE)
  /\ UNCHANGED <<store, clock, chatHistory, videoHistory, chats, currentChatId, sessionCache,
                 ccVars, effectPending, nPost, nNew, rev, authVars, ctxVars>>

(* handleSelectChat of the legacy revision: setCurrentChatId(chatId) *)
handleSelectChatLegacy(chatId) ==
  /\ mounted
  /\ chatId \in ChatIds
  /\ chatId # currentChatId
  /\ currentChatId' = chatId
  /\ Remount(chats, chatId)
  /\ reqs' = Orphan(reqs)
  /\ lastOp' = Op("handleSelectChat", NULL, "call", FALSE, {}, TRUE)
  /\ UNCHANGED <<store, clock, chatHistory, videoHistory, error, chats, sessionCache,
                 nGet, nPost, nNew, mounted, rev, authVars, ctxVars>>

(* setChats(prevChats => prevChats.map(...)) of the legacy handleMessageSent *)
ChatsAfterMessageLegacy(prevChats, messages, chatId) ==
  [ i \in DOMAIN prevChats |->
      IF prevChats[i].id = chatId
      THEN [ prevChats[i] EXCEPT
               !.messages = messages,
               !.title = IF messages = <<>> THEN prevChats[i].title
                         ELSE OrElse(Slice(messages[1].content, TitleLimit), prevChats[i].title) ]
      ELSE prevChats[i] ]

-----------------------------------------------------------------------------
(* ChatContainer *)

(* sortedMessages.map(...) of fetchChatHistory *)
TransformFetched(data) ==
  LET sortedMessages == SortByTimestamp(data)
  IN  [ i \in DOMAIN sortedMessages |->
          [ type |-> FetchType(sortedMessages[i].chat_type),
            content |-> sortedMessages[i].message ] ]

(* The history effect.  Its dependency sessionCache is the default {} of    *)
(* the parameter list, a new object in every render, so the effect runs     *)
(* after every render; sessionCache[chatId] is undefined and it calls       *)
(* fetchChatHistory, which runs up to its await.                            *)
(* issued is the number of GET /chat_history requests counted after it.     *)
runHistoryEffect(issued) ==
  /\ mounted
  /\ effectPending
  /\ IF user # NULL /\ currentChatId # NULL
     THEN /\ isLoading' = TRUE
          /\ reqs' = Add(reqs, NewReq("cc", currentChatId))
          /\ nGet' = issued
          /\ effectPending' = ~isLoading
          /\ lastOp' = Op("fetchChatHistory", currentChatId, "call", FALSE, {}, TRUE)
     ELSE /\ effectPending' = FALSE
          /\ lastOp' = Op("historyEffect", NULL, "call", FALSE, {}, TRUE)
          /\ UNCHANGED <<isLoading, reqs, nGet>>
  /\ UNCHANGED <<store, clock, appVars, chatMessages, ccError, nPost, nNew, mounted, rev, authVars, ctxVars>>

(* the history effect, while fewer than MaxGet requests were issued *)
historyEffect ==
  /\ (user # NULL /\ currentChatId # NULL) => nGet < MaxGet
  /\ runHistoryEffect(nGet + 1)

(* every response reaching the state of the ChatContainer on screen *)
StillMountedAlways(r) == TRUE

(* The ChatContainer that made the request is still the one on screen:      *)
(* key={currentChatId || 'new'} has not changed since.  The state setters   *)
(* of an instance that was unmounted change nothing.                        *)
StillMounted(r) == r.live

(* fetchChatHistory after its await: the response is an array of the rows   *)
(* of the session, or not OK, or no array                                   *)
fetchChatHistoryResume(r, outcome) ==
  /\ r.kind = "cc"
  /\ IF ~StillMounted(r)
     THEN UNCHANGED <<ccVars, effectPending>>
     ELSE /\ IF outcome = "ok"
             THEN /\ chatMessages' = TransformFetched(SelectRows(store, r.session))
                  /\ ccError' = NULL
             ELSE /\ ccError' = "Could not load chat history. Please try again later."
                  /\ UNCHANGED chatMessages
          /\ isLoading' = FALSE
          /\ effectPending' = TRUE
  /\ reqs' = Remove(reqs, r)
  /\ lastOp' = Op("fetchChatHistory", r.session, outcome, FALSE, {}, r.live)
  /\ UNCHANGED <<store, clock, appVars, nGet, nPost, nNew, mounted, rev, authVars, ctxVars>>

(* handleSubmit up to its await; an empty message or isLoading returns at once *)
handleSubmit(text) ==
  /\ mounted
  /\ ~isLoading
  /\ nPost < MaxPost
  /\ isLoading' = TRUE
  /\ ccError' = NULL
  /\ reqs' = Add(reqs, [NewReq("post", currentChatId) EXCEPT
                           !.text = text, !.snapMsgs = chatMessages,
                           !.snapSid = SessionOf(chats, currentChatId),
                           !.snapCache = sessionCache,
                           !.snapCur = currentChatId])
  /\ nPost' = nPost + 1
  /\ effectPending' = TRUE
  /\ lastOp' = Op("handleSubmit", currentChatId, "call", FALSE, {}, TRUE)
  /\ UNCHANGED <<store, clock, appVars, chatMessages, nGet, nNew, mounted, rev, authVars, ctxVars>>

(* updatedMessages with the reply put before the message *)
UpdatedMessagesReplyFirst(r) ==
  r.snapMsgs \o << [type |-> "bot", content |-> Reply(r.text)],
                   [type |-> "user", content |-> r.text] >>

(* updatedMessages of handleSubmit *)
UpdatedMessages(r) ==
  r.snapMsgs \o << [type |-> "user", content |-> r.text],
                   [type |-> "bot", content |-> Reply(r.text)] >>

(* handleMessageSent keeping only the chat of the message *)
ChatsAfterMessageAlone(prevChats, messages, chatId) ==
  SelectSeq(prevChats, LAMBDA chat : chat.id = chatId)

(* setChats(prevChats => prevChats.map(...)) of handleMessageSent *)
ChatsAfterMessage(prevChats, messages, chatId) ==
  [ i \in DOMAIN prevChats |->
      IF prevChats[i].id = chatId
      THEN [ prevChats[i] EXCEPT
               !.messages = [ j \in DOMAIN messages |->
                                [ messages[j] EXCEPT !.type = CacheType(messages[j].type) ] ],
               !.title = IF messages = <<>> THEN prevChats[i].title
                         ELSE OrElse(Slice(messages[1].content, TitleLimit), prevChats[i].title) ]
      ELSE prevChats[i] ]

(* a catch block that sends the request again *)
AfterFailedSendRetry(rs, r) == rs

(* the requests in flight after the catch block of a send ran: the POST is  *)
(* not sent again                                                           *)
AfterFailedSend(rs, r) == Remove(rs, r)

(* handleSubmit after its await; on success it calls onMessageSent, the     *)
(* handleMessageSent of the App render that handleSubmit started in         *)
handleSubmitResume(r, outcome) ==
  /\ r.kind = "post"
  /\ outcome \in { "ok", "fail" }
  /\ IF outcome = "ok"
     THEN /\ store' = store \o PostRows(r)
          /\ clock' = clock + 2
          /\ chatMessages' = IF r.live THEN UpdatedMessages(r) ELSE chatMessages
          /\ IF r.session # NULL /\ rev = "cache"
             THEN /\ chats' = ChatsAfterMessage(chats, UpdatedMessages(r), r.session)
                  /\ FetchHistoriesCall(r.snapSid, r.snapCache, Remove(reqs, r))
                  /\ lastOp' = Op("handleMessageSent", r.snapSid, "ok",
                                  UseCached(r.snapSid, r.snapCache), Ids(PostRows(r)), r.live)
             ELSE IF r.session # NULL
             THEN /\ chats' = ChatsAfterMessageLegacy(chats, UpdatedMessages(r), r.session)
                  /\ FetchHistoriesLegacyCall(r.snapCur, Remove(reqs, r))
                  /\ lastOp' = Op("handleMessageSent", NULL, "ok", FALSE, Ids(PostRows(r)), r.live)
                  /\ UNCHANGED chatHistory
             ELSE /\ reqs' = Remove(reqs, r)
                  /\ lastOp' = Op("handleSubmit", NULL, "ok", FALSE, Ids(PostRows(r)), r.live)
                  /\ UNCHANGED <<chats, error, chatHistory, nGet>>
          /\ UNCHANGED ccError
     ELSE /\ chatMessages' = IF r.live
                             THEN chatMessages \o << [type |-> "user", content |-> r.text],
                                                     [type |-> "error", content |-> SendFailedText] >>
                             ELSE chatMessages
          /\ ccError' = IF r.live THEN "Failed to send message. Please try again." ELSE ccError
          /\ reqs' = AfterFailedSend(reqs, r)
          /\ lastOp' = Op("handleSubmit", r.session, "fail", FALSE, {}, r.live)
          /\ UNCHANGED <<store, clock, chats, error, chatHistory, nGet>>
  /\ isLoading' = IF r.live THEN FALSE ELSE isLoading
  /\ effectPending' = TRUE
  /\ UNCHANGED <<videoHistory, currentChatId, sessionCache, nPost, nNew, mounted, rev, authVars, ctxVars>>

-----------------------------------------------------------------------------
(* The response of a handled request reaches the handler that awaits it. *)
Resume(r) ==
  /\ r.state # "sent"
  /\ IF r.kind = "fh" THEN FetchHistoriesResume(r) ELSE handleSelectChatResume(r)

Init ==
  /\ store \in InitStores
  /\ clock = 3
  /\ chatHistory = <<>>
  /\ videoHistory = <<>>
  /\ error = NULL
  /\ chats = <<>>
  /\ currentChatId = NULL
  /\ sessionCache = <<>>
  /\ chatMessages = <<>>
  /\ isLoading = FALSE
  /\ ccError = NULL
  /\ effectPending = TRUE
  /\ reqs = EmptyBag
  /\ nGet = 0
  /\ nPost = 0
  /\ nNew = 0
  /\ mounted = FALSE
  /\ rev = "cache"
  /\ lastOp = Op("init", NULL, "call", FALSE, {}, TRUE)
  /\ currentSession = NULL
  /\ ctxMessages = <<>>
  /\ ctxIsLoading = FALSE
  /\ ctxError = NULL
  /\ nSession = 0
  /\ SignedIn

Next ==
  \/ AppMount
  \/ handleNewChat
  \/ \E chatId \in ChatIds : handleSelectChat(chatId)
  \/ historyEffect
  \/ \E text \in Texts : handleSubmit(text)
  \/ \E r \in BagToSet(reqs), outcome \in Outcomes : ServerGet(r, outcome)
  \/ \E r \in BagToSet(reqs) : Resume(r)
  \/ \E r \in BagToSet(reqs), outcome \in Outcomes : fetchChatHistoryResume(r, outcome)
  \/ \E r \in BagToSet(reqs), outcome \in Outcomes : handleSubmitResume(r, outcome)

Spec == Init /\ [][Next]_vars

(* The response of a handled request reaches the legacy fetchHistories. *)
ResumeLegacy(r) ==
  /\ r.state # "sent"
  /\ r.kind = "fh"
  /\ FetchHistoriesLegacyResume(r)

InitLegacy ==
  /\ store \in InitStores
  /\ clock = 3
  /\ chatHistory = <<>>
  /\ videoHistory = <<>>
  /\ error = NULL
  /\ chats = <<>>
  /\ currentChatId = NULL
  /\ sessionCache = <<>>
  /\ chatMessages = <<>>
  /\ isLoading = FALSE
  /\ ccError = NULL
  /\ effectPending = TRUE
  /\ reqs = EmptyBag
  /\ nGet = 0
  /\ nPost = 0
  /\ nNew = 0
  /\ mounted = FALSE
  /\ rev = "legacy"
  /\ lastOp = Op("init", NULL, "call", FALSE, {}, TRUE)
  /\ currentSession = NULL
  /\ ctxMessages = <<>>
  /\ ctxIsLoading = FALSE
  /\ ctxError = NULL
  /\ nSession = 0
  /\ SignedIn

NextLegacy ==
  \/ AppMountLegacy
  \/ handleNewChat
  \/ \E chatId \in ChatIds : handleSelectChatLegacy(chatId)
  \/ historyEffect
  \/ \E text \in Texts : handleSubmit(text)
  \/ \E r \in BagToSet(reqs), outcome \in Outcomes : ServerGet(r, outcome)
  \/ \E r \in BagToSet(reqs) : ResumeLegacy(r)
  \/ \E r \in BagToSet(reqs), outcome \in Outcomes : fetchChatHistoryResume(r, outcome)
  \/ \E r \in BagToSet(reqs), outcome \in Outcomes : handleSubmitResume(r, outcome)

SpecLegacy == InitLegacy /\ [][NextLegacy]_vars

-----------------------------------------------------------------------------
(* Requests in flight *)

(* the GET /chat_history?session_id=s requests in flight *)
InFlight(s) ==
  { r \in BagToSet(reqs) : r.kind \in { "fh", "sel", "cc" } /\ r.session = s }

RECURSIVE Copies(_, _)
Copies(rs, some) ==
  IF some = {} THEN 0
  ELSE LET r == CHOOSE x \in some : TRUE
       IN  CopiesIn(r, rs) + Copies(rs, some \ {r})

NumInFlight(s) == Copies(reqs, InFlight(s))

SessionsAsked == { r.session : r \in BagToSet(reqs) } \ { NULL }

-----------------------------------------------------------------------------
(* C1: single-flight: while session s has no cache entry, the overlapping   *)
(* history reads of s (handleSelectChat, fetchHistories(s),                 *)
(* fetchChatHistory) have at most one /chat_history request for s in flight *)
C1_SingleFlight ==
  \A s \in SessionsAsked : ~HasKey(sessionCache, s) => NumInFlight(s) <= 1

(* C2: read-your-writes: when handleMessageSent has run for a message sent  *)
(* to session s and its fetchHistories(s) was served from sessionCache, the *)
(* chatHistory it set includes the rows the message appended                *)
C2_ReadYourWrites ==
  (lastOp.op = "handleMessageSent" /\ lastOp.hit) => lastOp.ids \subseteq Ids(chatHistory)

(* C3: a step in which a failed history fetch (fetchHistories or            *)
(* handleSelectChat) is resumed leaves sessionCache as it was               *)
C3_FailedFetchKeepsCache ==
  [][ \A r \in BagToSet(reqs) :
        (r.state = "fail" /\ Resume(r)) => sessionCache' = sessionCache ]_vars

(* C3 witness: a fetchHistories has just failed while the cache held entries *)
C3_Witness ==
  /\ lastOp.op = "fetchHistories"
  /\ lastOp.status = "fail"
  /\ sessionCache # <<>>

(* no handleSelectChat ever waits for a response: every chat that has a     *)
(* session_id was made by fetchHistories together with its cache entry      *)
ChatsAreCached ==
  /\ \A i \in DOMAIN chats : chats[i].session_id # NULL => HasKey(sessionCache, chats[i].session_id)
  /\ \A r \in BagToSet(reqs) : r.kind # "sel"

(* C4: a step in which a failed fetchHistories is resumed sets the error    *)
(* and leaves chatHistory, videoHistory and chats as they were              *)
C4_FailedFetchKeepsHistory ==
  [][ \A r \in BagToSet(reqs) :
        (r.state = "fail" /\ ResumeLegacy(r)) =>
          /\ error' # NULL
          /\ chatHistory' = chatHistory
          /\ videoHistory' = videoHistory
          /\ chats' = chats ]_vars

(* C5: a step in which a response whose body is not an array is resumed is  *)
(* a failed fetch: fetchHistories / handleSelectChat set the error and      *)
(* leave sessionCache, chatHistory and chats as they were; fetchChatHistory *)
(* sets its error and leaves chatMessages as they were                      *)
C5_MalformedIsFailure ==
  [][ /\ \A r \in BagToSet(reqs) :
           (r.state = "malformed" /\ Resume(r)) =>
             /\ error' # NULL
             /\ sessionCache' = sessionCache
             /\ chatHistory' = chatHistory
             /\ chats' = chats
      /\ \A r \in BagToSet(reqs) :
           (r.live /\ fetchChatHistoryResume(r, "malformed")) =>
             /\ ccError' # NULL
             /\ chatMessages' = chatMessages ]_vars

(* C6: a history read of a session that has a cache entry (handleSelectChat *)
(* of a cached chat; the fetchHistories(sessionId) of handleMessageSent,    *)
(* which reads the sessionCache of the render its handler was created in)   *)
(* sets chatHistory to the cached sequence in the same step and issues no   *)
(* /chat_history request                                                    *)
C6_CacheHitNoRequest ==
  [][ /\ \A chatId \in ChatIds :
           ( /\ SessionOf(chats, chatId) # NULL
             /\ HasKey(sessionCache, SessionOf(chats, chatId))
             /\ handleSelectChat(chatId) ) =>
               /\ chatHistory' = Lookup(sessionCache, SessionOf(chats, chatId))
               /\ nGet' = nGet
      /\ \A r \in BagToSet(reqs) :
           ( /\ r.session # NULL
             /\ r.snapSid # NULL
             /\ HasKey(r.snapCache, r.snapSid)
             /\ handleSubmitResume(r, "ok") ) =>
               /\ chatHistory' = Lookup(r.snapCache, r.snapSid)
               /\ nGet' = nGet ]_vars

(* C6 witness: handleMessageSent has just read the history of a cached      *)
(* session and chatHistory is the entry of that session                     *)
C6_Witness ==
  /\ lastOp.op = "handleMessageSent"
  /\ lastOp.hit
  /\ HasKey(sessionCache, lastOp.session)
  /\ chatHistory = Lookup(sessionCache, lastOp.session)
  /\ chatHistory # <<>>

NoDuplicateIds(hist) == \A i, j \in DOMAIN hist : hist[i].id = hist[j].id => i = j

(* C7: two reads of a session that no append to it separates return the     *)
(* same sequence, without duplicate ids: when the handler that ran last     *)
(* read session s from the cache, a step that appends nothing to s leaves   *)
(* the entry of s, which is what the next read of s returns, as it was      *)
C7_ConsistentReads ==
  [][ \A s \in Keys(sessionCache) :
        ( /\ lastOp.hit
          /\ lastOp.session = s
          /\ SelectRows(store', s) = SelectRows(store, s) ) =>
            /\ HasKey(sessionCache', s)
            /\ Lookup(sessionCache', s) = Lookup(sessionCache, s)
            /\ NoDuplicateIds(Lookup(sessionCache', s)) ]_vars

Sent(text) == [ type |-> "user", content |-> text ]

(* the message `text` was stored under the session of chat `chatId` *)
Stored(text, chatId) ==
  \E i \in DOMAIN store :
    /\ store[i].session_id = StoredUnder(chatId)
    /\ store[i].chat_type = "user"
    /\ store[i].message = text

(* C8: two overlapping sends of distinct texts to one session both appear   *)
(* in the transcript: when a send succeeds in the mounted ChatContainer     *)
(* and the transcript holds the entry of another stored text that arrived   *)
(* after this send had started, both entries are in the transcript after    *)
(* the step                                                                 *)
C8_ConcurrentSendsBothAppear ==
  [][ \A r \in BagToSet(reqs) :
        (r.live /\ handleSubmitResume(r, "ok")) =>
          \A text \in Texts \ { r.text } :
            ( /\ Stored(text, r.session)
              /\ Sent(text) \in Range(chatMessages)
              /\ Sent(text) \notin Range(r.snapMsgs) ) =>
                /\ Sent(text) \in Range(chatMessages')
                /\ Sent(r.text) \in Range(chatMessages') ]_vars

(* the /chat_history requests of App in flight *)
AppFetches == { r \in BagToSet(reqs) : r.kind \in { "fh", "sel" } }

NumAppFetches == Copies(reqs, AppFetches)

IdsBySession(cache) ==
  [ k \in Keys(cache) |-> [ i \in DOMAIN Lookup(cache, k) |-> Lookup(cache, k)[i].id ] ]

(* the fetchHistories responses waiting to be processed *)
Arrived == { r \in BagToSet(reqs) : r.kind = "fh" /\ r.state = "ok" }

(* C10: the cache after two fetch results were merged into it does not      *)
(* depend on the order in which the two were merged                         *)
C10_MergeOrderIndependent ==
  \A a, b \in Arrived :
    IdsBySession(CacheAfterFetch(CacheAfterFetch(sessionCache, a), b))
      = IdsBySession(CacheAfterFetch(CacheAfterFetch(sessionCache, b), a))

-----------------------------------------------------------------------------
(* how often x occurs in the sequence seq *)
Count(seq, x) == Cardinality({ i \in DOMAIN seq : seq[i] = x })

(* how often the message `text` is stored for the chat `chatId` *)
StoredCount(text, chatId) ==
  Cardinality({ i \in DOMAIN store :
                  /\ store[i].session_id = StoredUnder(chatId)
                  /\ store[i].chat_type = "user"
                  /\ store[i].message = text })

(* C11: idempotent append: a record is in an entry once, however often it   *)
(* was appended: the transcript of the mounted ChatContainer holds the user *)
(* message of a text more than once only if the session stores that text    *)
(* as often, and no cache entry holds two records with one id               *)
C11_IdempotentAppend ==
  /\ \A text \in Texts :
       Count(chatMessages, Sent(text)) > 1 =>
         Count(chatMessages, Sent(text)) <= StoredCount(text, currentChatId)
  /\ \A k \in Keys(sessionCache) : NoDuplicateIds(Lookup(sessionCache, k))

-----------------------------------------------------------------------------
(* The server may return the rows of /chat_history in either direction      *)
(* (oldest first or newest first).                                          *)

Reverse(seq) == [ i \in DOMAIN seq |-> seq[Len(seq) + 1 - i] ]

Orders(rows) == { rows, Reverse(rows) }

(* Histories with more than one row in a session. *)
OrderStores ==
  InitStores \cup
  { << Row(1, "s1", "user", <<"a">>), Row(2, "s1", "bot", <<"b">>) >>,
    << Row(1, "s1", "user", <<"a">>), Row(2, "s2", "user", <<"c">>) >> }

(* GET /chat_history[?session_id=...] is handled, the rows in some order *)
ServerGetAnyOrder(r, outcome, rows) ==
  /\ r.kind \in { "fh", "sel" }
  /\ r.state = "sent"
  /\ reqs' = Add(Remove(reqs, r),
                 [r EXCEPT !.state = outcome,
                           !.body = IF outcome = "ok" THEN rows ELSE <<>>])
  /\ UNCHANGED <<store, clock, appVars, ccVars, effectPending, nGet, nPost, nNew, mounted, rev, authVars, lastOp, ctxVars>>

InitOrder ==
  /\ store \in OrderStores
  /\ clock = 3
  /\ chatHistory = <<>>
  /\ videoHistory = <<>>
  /\ error = NULL
  /\ chats = <<>>
  /\ currentChatId = NULL
  /\ sessionCache = <<>>
  /\ chatMessages = <<>>
  /\ isLoading = FALSE
  /\ ccError = NULL
  /\ effectPending = TRUE
  /\ reqs = EmptyBag
  /\ nGet = 0
  /\ nPost = 0
  /\ nNew = 0
  /\ mounted = FALSE
  /\ rev = "cache"
  /\ lastOp = Op("init", NULL, "call", FALSE, {}, TRUE)
  /\ currentSession = NULL
  /\ ctxMessages = <<>>
  /\ ctxIsLoading = FALSE
  /\ ctxError = NULL
  /\ nSession = 0
  /\ SignedIn

(* The user reads histories and sends nothing. *)
NextOrder ==
  \/ AppMount
  \/ handleNewChat
  \/ \E chatId \in ChatIds : handleSelectChat(chatId)
  \/ historyEffect
  \/ \E r \in BagToSet(reqs), outcome \in Outcomes :
       \E rows \in Orders(SelectRows(store, r.session)) : ServerGetAnyOrder(r, outcome, rows)
  \/ \E r \in BagToSet(reqs) : Resume(r)
  \/ \E r \in BagToSet(reqs), outcome \in Outcomes : fetchChatHistoryResume(r, outcome)

SpecOrder == InitOrder /\ [][NextOrder]_vars

(* non-decreasing by (TIMESTAMP, id) *)
Ordered(hist) ==
  \A i, j \in DOMAIN hist :
    i < j => \/ hist[i].TIMESTAMP < hist[j].TIMESTAMP
             \/ (hist[i].TIMESTAMP = hist[j].TIMESTAMP /\ hist[i].id <= hist[j].id)

(* C12: every cache entry is non-decreasing by (TIMESTAMP, id), whatever    *)
(* order the server returned the rows in                                    *)
C12_CacheEntriesOrdered ==
  \A k \in Keys(sessionCache) : Ordered(Lookup(sessionCache, k))

-----------------------------------------------------------------------------
(* ChatProvider (frontend/src/context/ChatContext.tsx).  Its state updates  *)
(* are functional (setMessages(prev => ...)), so a continuation reads the   *)
(* messages of the moment it runs; the provider is never remounted.         *)

(* createSession up to its await *)
createSession ==
  /\ nSession < MaxSessions
  /\ ctxIsLoading' = TRUE
  /\ ctxError' = NULL
  /\ reqs' = Add(reqs, NewReq("session", NULL))
  /\ nSession' = nSession + 1
  /\ lastOp' = Op("createSession", NULL, "call", FALSE, {}, TRUE)
  /\ UNCHANGED <<store, clock, appVars, ccVars, effectPending, nGet, nPost, nNew, mounted, rev, authVars,
                 currentSession, ctxMessages>>

(* createSession after its await: POST /chat_sessions answers with the new  *)
(* session, or not OK                                                       *)
createSessionResume(r, outcome) ==
  /\ r.kind = "session"
  /\ outcome \in { "ok", "fail" }
  /\ IF outcome = "ok"
     THEN /\ currentSession' = ToString(clock)
          /\ ctxMessages' = <<>>
          /\ clock' = clock + 1
          /\ UNCHANGED ctxError
     ELSE /\ ctxError' = "Failed to create chat session"
          /\ UNCHANGED <<currentSession, ctxMessages, clock>>
  /\ ctxIsLoading' = FALSE
  /\ reqs' = Remove(reqs, r)
  /\ lastOp' = Op("createSession", NULL, outcome, FALSE, {}, TRUE)
  /\ UNCHANGED <<store, appVars, ccVars, effectPending, nGet, nPost, nNew, mounted, rev, authVars, nSession>>

(* sendMessage up to its await, or up to its early return *)
sendMessage(text) ==
  /\ IF currentSession = NULL
     THEN /\ ctxError' = "No active chat session"
          /\ lastOp' = Op("sendMessage", NULL, "rejected", FALSE, {}, TRUE)
          /\ UNCHANGED <<ctxIsLoading, ctxMessages, reqs, nPost>>
     ELSE /\ nPost < MaxPost
          /\ ctxIsLoading' = TRUE
          /\ ctxError' = NULL
          /\ ctxMessages' = Append(ctxMessages, [type |-> "user", content |-> text])
          /\ reqs' = Add(reqs, [NewReq("send", currentSession) EXCEPT !.text = text])
          /\ nPost' = nPost + 1
          /\ lastOp' = Op("sendMessage", currentSession, "call", FALSE, {}, TRUE)
  /\ UNCHANGED <<store, clock, appVars, ccVars, effectPending, nGet, nNew, mounted, rev, authVars,
                 currentSession, nSession>>

(* sendMessage after its await *)
sendMessageResume(r, outcome) ==
  /\ r.kind = "send"
  /\ outcome \in { "ok", "fail" }
  /\ IF outcome = "ok"
     THEN /\ store' = store \o PostRows(r)
          /\ clock' = clock + 2
          /\ ctxMessages' = Append(ctxMessages, [type |-> "bot", content |-> Reply(r.text)])
          /\ lastOp' = Op("sendMessage", r.session, "ok", FALSE, Ids(PostRows(r)), TRUE)
          /\ UNCHANGED ctxError
     ELSE /\ ctxError' = "Failed to send message"
          /\ ctxMessages' = Append(ctxMessages, [type |-> "error", content |-> SendFailedText])
          /\ lastOp' = Op("sendMessage", r.session, "fail", FALSE, {}, TRUE)
          /\ UNCHANGED <<store, clock>>
  /\ ctxIsLoading' = FALSE
  /\ reqs' = IF outcome = "ok" THEN Remove(reqs, r) ELSE AfterFailedSend(reqs, r)
  /\ UNCHANGED <<appVars, ccVars, effectPending, nGet, nPost, nNew, mounted, rev, authVars,
                 currentSession, nSession>>

clearError ==
  /\ ctxError # NULL
  /\ ctxError' = NULL
  /\ lastOp' = Op("clearError", NULL, "call", FALSE, {}, TRUE)
  /\ UNCHANGED <<store, clock, appVars, ccVars, effectPending, reqs, nGet, nPost, nNew, mounted, rev, authVars,
                 currentSession, ctxMessages, ctxIsLoading, nSession>>

(* The page with the ChatProvider and, before any chat is chosen, App with  *)
(* its ChatContainer (chatId null).                                         *)
NextChat ==
  \/ AppMount
  \/ historyEffect
  \/ \E text \in Texts : handleSubmit(text)
  \/ \E r \in BagToSet(reqs), outcome \in Outcomes : ServerGet(r, outcome)
  \/ \E r \in BagToSet(reqs) : Resume(r)
  \/ \E r \in BagToSet(reqs), outcome \in Outcomes : handleSubmitResume(r, outcome)
  \/ createSession
  \/ \E r \in BagToSet(reqs), outcome \in Outcomes : createSessionResume(r, outcome)
  \/ \E text \in Texts : sendMessage(text)
  \/ \E r \in BagToSet(reqs), outcome \in Outcomes : sendMessageResume(r, outcome)
  \/ clearError

SpecChat == Init /\ [][NextChat]_vars

-----------------------------------------------------------------------------
(* the transcript of one exchange *)
Exchange(text) == << Sent(text), [type |-> "bot", content |-> Reply(text)] >>

(* C13: from an empty transcript, one successful send leaves exactly two    *)
(* entries, the user message and then the reply: in the ChatContainer when  *)
(* the send started with no messages, in the ChatProvider when the message  *)
(* is the only entry while its POST is answered                             *)
C13_OneSendTwoEntries ==
  [][ /\ \A r \in BagToSet(reqs) :
           (r.live /\ r.snapMsgs = <<>> /\ handleSubmitResume(r, "ok")) =>
             chatMessages' = Exchange(r.text)
      /\ \A text \in Texts :
           (currentSession # NULL /\ ctxMessages = <<>> /\ sendMessage(text)) =>
             ctxMessages' = << Sent(text) >>
      /\ \A r \in BagToSet(reqs) :
           (ctxMessages = << Sent(r.text) >> /\ sendMessageResume(r, "ok")) =>
             ctxMessages' = Exchange(r.text) ]_vars

(* C13 witness: one send in the ChatContainer and one in the ChatProvider,  *)
(* each from an empty transcript, have succeeded                            *)
C13_Witness ==
  /\ \E text \in Texts : chatMessages = Exchange(text)
  /\ \E text \in Texts : ctxMessages = Exchange(text)
  /\ reqs = EmptyBag

(* C14: a message sent while no session is selected is posted, not          *)
(* rejected: such a send issues its POST /send_message and sets no error    *)
C14_SendWithoutSessionPosts ==
  [][ /\ \A text \in Texts :
           (currentSession = NULL /\ sendMessage(text)) =>
             /\ nPost' = nPost + 1
             /\ ctxError' = NULL
      /\ \A text \in Texts :
           (currentChatId = NULL /\ handleSubmit(text)) =>
             /\ nPost' = nPost + 1
             /\ ccError' = NULL ]_vars

(* C15: "no history yet" and "history failed to load" are told apart: after *)
(* a history fetch that did not succeed the error is set, so an empty       *)
(* chatHistory with a null error follows only a fetch that succeeded        *)
C15_EmptyIsNotFailed ==
  /\ ( /\ lastOp.op \in { "fetchHistories", "handleSelectChat" }
       /\ lastOp.status \in { "fail", "malformed" } ) => error # NULL
  /\ ( /\ lastOp.op = "fetchHistories"
       /\ chatHistory = <<>>
       /\ error = NULL ) => lastOp.status = "ok"

(* the POST /send_message requests in flight *)
Posts == { r \in BagToSet(reqs) : r.kind \in { "post", "send" } }

NumPosts == Copies(reqs, Posts)

(* C16: a write is never retried silently: a POST /send_message gets in     *)
(* flight only in a step in which the user submits, one per submit, and the *)
(* step that handles a failed POST leaves that POST gone and issues none    *)
C16_NoSilentRetry ==
  [][ /\ (nPost' # nPost \/ NumPosts' > NumPosts) =>
           /\ \E text \in Texts : handleSubmit(text) \/ sendMessage(text)
           /\ nPost' = nPost + 1
           /\ NumPosts' = NumPosts + 1
      /\ \A r \in BagToSet(reqs) :
           (handleSubmitResume(r, "fail") \/ sendMessageResume(r, "fail")) =>
             /\ nPost' = nPost
             /\ NumPosts' = NumPosts - 1 ]_vars

(* C16 witness: a send has failed in each component and no POST is in flight *)
C16_Witness ==
  /\ lastOp.op \in { "handleSubmit", "sendMessage" }
  /\ lastOp.status = "fail"
  /\ ccError # NULL
  /\ ctxError = "Failed to send message"
  /\ NumPosts = 0

C18_ChatsNewestFirst ==
  \A i, j \in DOMAIN chats :
    i < j => chats[i].timestamp >= chats[j].timestamp

-----------------------------------------------------------------------------
(* The titles of the chats, in both revisions of App.tsx, with messages     *)
(* at and just above the limit of 30 characters.                            *)

TextOfLength(n) == [ i \in 1..n |-> "x" ]

LongTexts == { TextOfLength(TitleLimit), TextOfLength(TitleLimit + 1) }

TitleStores == { <<>> } \cup { << Row(1, "s1", "user", text) >> : text \in LongTexts }

InitTitle ==
  /\ store \in TitleStores
  /\ clock = 3
  /\ chatHistory = <<>>
  /\ videoHistory = <<>>
  /\ error = NULL
  /\ chats = <<>>
  /\ currentChatId = NULL
  /\ sessionCache = <<>>
  /\ chatMessages = <<>>
  /\ isLoading = FALSE
  /\ ccError = NULL
  /\ effectPending = TRUE
  /\ reqs = EmptyBag
  /\ nGet = 0
  /\ nPost = 0
  /\ nNew = 0
  /\ mounted = FALSE
  /\ rev \in { "cache", "legacy" }
  /\ lastOp = Op("init", NULL, "call", FALSE, {}, TRUE)
  /\ currentSession = NULL
  /\ ctxMessages = <<>>
  /\ ctxIsLoading = FALSE
  /\ ctxError = NULL
  /\ nSession = 0
  /\ SignedIn

NextTitle ==
  \/ rev = "cache" /\ AppMount
  \/ rev = "legacy" /\ AppMountLegacy
  \/ handleNewChat
  \/ rev = "cache" /\ \E chatId \in ChatIds : handleSelectChat(chatId)
  \/ rev = "legacy" /\ \E chatId \in ChatIds : handleSelectChatLegacy(chatId)
  \/ historyEffect
  \/ \E text \in LongTexts : handleSubmit(text)
  \/ \E r \in BagToSet(reqs), outcome \in Outcomes : ServerGet(r, outcome)
  \/ rev = "cache" /\ \E r \in BagToSet(reqs) : Resume(r)
  \/ rev = "legacy" /\ \E r \in BagToSet(reqs) : ResumeLegacy(r)
  \/ \E r \in BagToSet(reqs), outcome \in Outcomes : fetchChatHistoryResume(r, outcome)
  \/ \E r \in BagToSet(reqs), outcome \in Outcomes : handleSubmitResume(r, outcome)

SpecTitle == InitTitle /\ [][NextTitle]_vars

(* the message cut to 30 characters, with "..." exactly when it was longer *)
Truncated(message) ==
  IF Len(message) > TitleLimit
  THEN SubSeq(message, 1, TitleLimit) \o Ellipsis
  ELSE message

(* C19: the title of every chat that has messages is its first message      *)
(* cut to 30 characters, with the ellipsis exactly when the message is      *)
(* longer than 30 characters                                                *)
C19_TitleTruncatedWithEllipsis ==
  \A i \in DOMAIN chats :
    chats[i].messages # <<>> => chats[i].title = Truncated(chats[i].messages[1].content)

(* C20: a /chat_history response of fetchChatHistory for a chat that is no  *)
(* longer the current chat changes nothing of what the chat on screen       *)
(* shows: its messages, its error and its loading flag stay as they are     *)
C20_StaleHistoryNotApplied ==
  [][ \A r \in BagToSet(reqs), outcome \in Outcomes :
        ( /\ r.kind = "cc"
          /\ r.session # currentChatId
          /\ fetchChatHistoryResume(r, outcome) ) =>
            /\ chatMessages' = chatMessages
            /\ ccError' = ccError
            /\ isLoading' = isLoading ]_vars

(* C20 witness: the history of a chat with stored messages arrived after    *)
(* the user went to another chat, whose messages are still displayed        *)
C20_Witness ==
  /\ lastOp.op = "fetchChatHistory"
  /\ lastOp.status = "ok"
  /\ ~lastOp.live
  /\ currentChatId # NULL
  /\ lastOp.session # currentChatId
  /\ SelectRows(store, lastOp.session) # <<>>
  /\ chatMessages # <<>>
  /\ chatMessages # TransformFetched(SelectRows(store, lastOp.session))

-----------------------------------------------------------------------------
(* AuthProvider, in its two revisions: the one that tries /auth_status up   *)
(* to MAX_RETRIES times (authRev = "retry") and the one of                  *)
(* frontend/src/context/AuthContext.tsx that asks once (authRev = "single").*)
(* The endpoints /auth_status, /login and /logout are environment.          *)

MAX_RETRIES == 3

(* What a request to /auth_status may come to: an OK response with a JSON   *)
(* body; a response that is not OK, or no response; an OK response whose    *)
(* body is not JSON.                                                        *)
AuthOutcomes == { "ok", "fail", "badjson" }

(* data.user of /auth_status *)
UserOf(session) == IF session THEN "u1" ELSE NULL

AuthCall(kind, attempt, pc) == [ kind |-> kind, attempt |-> attempt, pc |-> pc ]

Checks == { c \in BagToSet(authCalls) : c.kind = "check" }
NumChecks == Copies(authCalls, Checks)

(* checkAuthStatus up to its first await: the first request is sent *)
checkAuthStatusCall(calls) ==
  /\ authCalls' = Add(calls, AuthCall("check", 1, "fetch"))
  /\ loading' = IF authRev = "retry" THEN TRUE ELSE loading

(* useEffect(() => { checkAuthStatus(); }, []) *)
AuthMount ==
  /\ ~authMounted
  /\ authMounted' = TRUE
  /\ checkAuthStatusCall(authCalls)
  /\ UNCHANGED <<user, isAuthenticated, loggedIn, nLogin, authRev, chatVars>>

(* a loop that never takes an attempt for the last *)
LastAttemptNever(c) == FALSE

(* attempt === MAX_RETRIES *)
LastAttempt(c) == c.attempt = MAX_RETRIES

(* checkAuthStatus after the await of its request.  With MAX_RETRIES: an    *)
(* error thrown in the try block, by a response that is not OK or by        *)
(* response.json(), ends the call at the last attempt and starts the delay  *)
(* otherwise.  With a single request (axios): a body that is not JSON has   *)
(* no field authenticated.                                                  *)
checkAuthStatusResume(c, outcome) ==
  /\ c.kind = "check"
  /\ c.pc = "fetch"
  /\ IF authRev = "retry"
     THEN /\ IF outcome = "ok"
             THEN /\ user' = UserOf(loggedIn)
                  /\ loading' = FALSE
                  /\ authCalls' = Remove(authCalls, c)
             ELSE IF LastAttempt(c)
             THEN /\ user' = NULL
                  /\ loading' = FALSE
                  /\ authCalls' = Remove(authCalls, c)
             ELSE /\ authCalls' = Add(Remove(authCalls, c), [c EXCEPT !.pc = "backoff"])
                  /\ UNCHANGED <<user, loading>>
          /\ UNCHANGED isAuthenticated
     ELSE /\ user' = IF outcome = "ok" THEN UserOf(loggedIn) ELSE NULL
          /\ isAuthenticated' = (outcome = "ok" /\ loggedIn)
          /\ loading' = FALSE
          /\ authCalls' = Remove(authCalls, c)
  /\ UNCHANGED <<loggedIn, nLogin, authMounted, authRev, chatVars>>

(* the delay RETRY_DELAY * attempt is over: the next attempt starts *)
backoffDone(c) ==
  /\ c.kind = "check"
  /\ c.pc = "backoff"
  /\ loading' = TRUE
  /\ authCalls' = Add(Remove(authCalls, c), AuthCall("check", c.attempt + 1, "fetch"))
  /\ UNCHANGED <<user, isAuthenticated, loggedIn, nLogin, authMounted, authRev, chatVars>>

(* login up to its await *)
login ==
  /\ authMounted
  /\ nLogin < MaxAuthCalls
  /\ nLogin' = nLogin + 1
  /\ authCalls' = Add(authCalls, AuthCall("login", 0, "fetch"))
  /\ UNCHANGED <<user, loading, isAuthenticated, loggedIn, authMounted, authRev, chatVars>>

(* login after its await: if (data.success) await checkAuthStatus() *)
loginResume(c, outcome) ==
  /\ c.kind = "login"
  /\ outcome \in { "ok", "fail" }
  /\ IF outcome = "ok"
     THEN /\ loggedIn' = TRUE
          /\ checkAuthStatusCall(Remove(authCalls, c))
     ELSE /\ authCalls' = Remove(authCalls, c)
          /\ UNCHANGED <<loggedIn, loading>>
  /\ UNCHANGED <<user, isAuthenticated, nLogin, authMounted, authRev, chatVars>>

(* logout up to its await *)
logout ==
  /\ authMounted
  /\ nLogin < MaxAuthCalls
  /\ nLogin' = nLogin + 1
  /\ authCalls' = Add(authCalls, AuthCall("logout", 0, "fetch"))
  /\ UNCHANGED <<user, loading, isAuthenticated, loggedIn, authMounted, authRev, chatVars>>

(* logout after its await; "fail" is a request that threw *)
logoutResume(c, outcome) ==
  /\ c.kind = "logout"
  /\ outcome \in { "ok", "fail" }
  /\ authCalls' = Remove(authCalls, c)
  /\ IF outcome = "ok"
     THEN /\ loggedIn' = FALSE
          /\ user' = NULL
          /\ isAuthenticated' = FALSE
     ELSE UNCHANGED <<loggedIn, user, isAuthenticated>>
  /\ UNCHANGED <<loading, nLogin, authMounted, authRev, chatVars>>

InitAuth ==
  /\ store = <<>>
  /\ clock = 3
  /\ chatHistory = <<>>
  /\ videoHistory = <<>>
  /\ error = NULL
  /\ chats = <<>>
  /\ currentChatId = NULL
  /\ sessionCache = <<>>
  /\ chatMessages = <<>>
  /\ isLoading = FALSE
  /\ ccError = NULL
  /\ effectPending = TRUE
  /\ reqs = EmptyBag
  /\ nGet = 0
  /\ nPost = 0
  /\ nNew = 0
  /\ mounted = FALSE
  /\ rev = "cache"
  /\ lastOp = Op("init", NULL, "call", FALSE, {}, TRUE)
  /\ currentSession = NULL
  /\ ctxMessages = <<>>
  /\ ctxIsLoading = FALSE
  /\ ctxError = NULL
  /\ nSession = 0
  /\ user = NULL
  /\ loading = TRUE
  /\ isAuthenticated = FALSE
  /\ authCalls = EmptyBag
  /\ loggedIn \in BOOLEAN
  /\ nLogin = 0
  /\ authMounted = FALSE
  /\ authRev \in { "retry", "single" }

CheckResumes == \E c \in BagToSet(authCalls), outcome \in AuthOutcomes : checkAuthStatusResume(c, outcome)
BackoffsDone == \E c \in BagToSet(authCalls) : backoffDone(c)
LoginResumes == \E c \in BagToSet(authCalls), outcome \in AuthOutcomes : loginResume(c, outcome)
LogoutResumes == \E c \in BagToSet(authCalls), outcome \in AuthOutcomes : logoutResume(c, outcome)

NextAuth ==
  \/ AuthMount
  \/ CheckResumes
  \/ BackoffsDone
  \/ login
  \/ LoginResumes
  \/ logout
  \/ LogoutResumes

(* The mount effect runs, every request is answered or fails, and every     *)
(* timer fires.                                                             *)
SpecAuth ==
  /\ InitAuth
  /\ [][NextAuth]_vars
  /\ WF_vars(AuthMount)
  /\ WF_vars(CheckResumes)
  /\ WF_vars(BackoffsDone)
  /\ WF_vars(LoginResumes)
  /\ WF_vars(LogoutResumes)

(* the steps of one attempt of checkAuthStatus agree with the claim, an     *)
(* attempt that stops being one whose outcome is in stopping                *)
AttemptsAsClaimed(stopping) ==
  \A c \in BagToSet(authCalls), outcome \in AuthOutcomes :
    checkAuthStatusResume(c, outcome) =>
      /\ c.attempt <= MAX_RETRIES
      /\ outcome \in stopping => NumChecks' = NumChecks - 1
      /\ NumChecks' < NumChecks => loading' = FALSE
      /\ (outcome = "fail" /\ c.attempt = MAX_RETRIES) => (NumChecks' = NumChecks - 1 /\ user' = NULL)

(* every checkAuthStatus has ended and loading is false, for good *)
AuthSettled == <>[](NumChecks = 0 /\ loading = FALSE)

(* C21: checkAuthStatus sends at most MAX_RETRIES requests, stops at the    *)
(* first attempt whose response is OK and has a JSON body, ends with        *)
(* loading = false, with user = null when the last attempt failed, and      *)
(* every call ends                                                          *)
C21_CheckAuthStatusEnds ==
  /\ [][AttemptsAsClaimed({ "ok" })]_vars
  /\ AuthSettled

(* C21 as stated: the same with checkAuthStatus stopping at the first       *)
(* attempt that gets an OK response, whatever its body                      *)
C21_StopsAtFirstOkResponse ==
  /\ [][AttemptsAsClaimed({ "ok", "badjson" })]_vars
  /\ AuthSettled

(* C21 witness: a checkAuthStatus with MAX_RETRIES whose three attempts     *)
(* failed has ended, nothing is running, loading is false and no user set   *)
C21_Witness ==
  /\ authRev = "retry"
  /\ authMounted
  /\ nLogin = 0
  /\ loggedIn
  /\ authCalls = EmptyBag
  /\ loading = FALSE
  /\ user = NULL

(* C22: once no request is in flight, the rows of chatHistory all belong    *)
(* to the session of the current chat, whatever chats were selected before  *)
(* and in whatever order the responses came                                 *)
C22_HistoryOfCurrentChat ==
  ( /\ reqs = EmptyBag
    /\ HasChat(chats, currentChatId)
    /\ SessionOf(chats, currentChatId) # NULL ) =>
      \A i \in DOMAIN chatHistory : chatHistory[i].session_id = SessionOf(chats, currentChatId)

(* C23: currentChatId is null or the id of one of the chats *)
C23_CurrentChatExists == currentChatId = NULL \/ HasChat(chats, currentChatId)

(* the chats of the sessions other than sessionId are the same, at the     *)
(* same places, in this state and the next                                  *)
OtherChatsUnchanged(sessionId) ==
  /\ Len(chats') = Len(chats)
  /\ \A i \in DOMAIN chats : chats[i].session_id # sessionId => chats'[i] = chats[i]

-----------------------------------------------------------------------------
(* The ChatContainer of a chat that stays current: the user picks a chat    *)
(* once and then does nothing.  The requests of fetchChatHistory are        *)
(* counted up to MaxGet and no further, and at most MaxPending of them are  *)
(* in flight at a time.                                                     *)

HistoryFetches == { r \in BagToSet(reqs) : r.kind = "cc" }
NumHistoryFetches == Copies(reqs, HistoryFetches)

historyEffectAgain ==
  /\ (user # NULL /\ currentChatId # NULL) => NumHistoryFetches < MaxPending
  /\ runHistoryEffect(Min(nGet + 1, MaxGet))

PickChat == currentChatId = NULL /\ \E chatId \in ChatIds : handleSelectChat(chatId)
ServerGets == \E r \in BagToSet(reqs), outcome \in Outcomes : ServerGet(r, outcome)
Resumes == \E r \in BagToSet(reqs) : Resume(r)
HistoryResumes == \E r \in BagToSet(reqs), outcome \in Outcomes : fetchChatHistoryResume(r, outcome)

NextEffect ==
  \/ AppMount
  \/ PickChat
  \/ currentChatId = NULL /\ handleNewChat
  \/ historyEffectAgain
  \/ ServerGets
  \/ Resumes
  \/ HistoryResumes

(* Effects run after the render that scheduled them and every request is    *)
(* answered or fails.                                                       *)
SpecEffect ==
  /\ Init
  /\ [][NextEffect]_vars
  /\ WF_vars(AppMount)
  /\ WF_vars(historyEffectAgain)
  /\ WF_vars(ServerGets)
  /\ WF_vars(Resumes)
  /\ WF_vars(HistoryResumes)

(* C25: the ChatContainer of a chat that stays current comes to rest: from  *)
(* some moment on no /chat_history request of fetchChatHistory is in        *)
(* flight, isLoading is false and the history effect is not due to run      *)
C25_HistoryEffectSettles ==
  <>[](NumHistoryFetches = 0 /\ ~isLoading /\ ~effectPending)

(* no record id is stored under two keys of the cache *)
KeysDisjoint(cache) ==
  \A i, j \in DOMAIN cache :
    i # j => cache[i].key # cache[j].key /\ Ids(cache[i].val) \cap Ids(cache[j].val) = {}

OwnPosts == { r \in BagToSet(reqs) : r.kind = "post" /\ r.live }

(* C27: at most one POST /send_message of the mounted ChatContainer is in   *)
(* flight                                                                   *)
C27_OneSendInFlight == Copies(reqs, OwnPosts) <= 1

(* sessionCache[chatId].map(...) of the ChatContainer: the messages shown   *)
(* for the records of a cache entry                                         *)
ShownFromCache(hist) ==
  [ i \in DOMAIN hist |->
      [ type |-> CacheType(hist[i].chat_type), content |-> hist[i].message ] ]

(* C28: when fetchChatHistory has just shown the records of the current     *)
(* chat and the cache holds the same records for it, every message has the  *)
(* role that the mapping of the cache entry gives it                        *)
C28_SameRoleOnBothPaths ==
  ( /\ lastOp.op = "fetchChatHistory"
    /\ lastOp.status = "ok"
    /\ lastOp.live
    /\ HasKey(sessionCache, currentChatId)
    /\ Lookup(sessionCache, currentChatId) = SelectRows(store, currentChatId) ) =>
      \A i \in DOMAIN chatMessages :
        chatMessages[i].type = ShownFromCache(Lookup(sessionCache, currentChatId))[i].type

====
